---------------------------- MODULE Spec2Model ----------------------------
(***************************************************************************)
(* A model of the monthly shift scheduler of scheduler.py: assign_slots    *)
(* with its nested Edmonds-Karp FlowSolver and the seven flow phases run   *)
(* by run_flow_phase (Senior Spread, Senior Depth, General Fill 1..5),     *)
(* followed by warning generation.                                         *)
(*                                                                         *)
(* Python dicts keep insertion order and the BFS of the solver as well as  *)
(* the extraction loop iterate over .items(), so a dict is modelled as the *)
(* sequence of its <<key, value>> pairs in insertion order.  The outer     *)
(* defaultdicts graph and flow are never iterated; they are functions from *)
(* the nodes present to such sequences.                                    *)
(***************************************************************************)
EXTENDS Integers, Sequences, FiniteSets, TLC

VARIABLES
    people,         \* the roster handed to assign_slots (list of dicts)
    cal_assign,     \* date -> slot -> list of names
    person_assign,  \* name -> list of <<date, slot>>
    person_state,   \* name -> [shifts, days_worked]
    warnings,       \* list of warnings built at the end of assign_slots
    phase,          \* index of the flow phase being run (1..7), 8 afterwards
    pc,             \* position inside assign_slots / the solver driver
    graph,          \* solver.graph : u -> v -> capacity
    flow,           \* solver.flow  : u -> v -> flow
    max_f,          \* max_flow's accumulator
    src,            \* max_flow's argument s
    snk,            \* max_flow's argument t
    calls,          \* solver driver: position in its list of edges
    df,             \* main: the sheet read by load_availability
    results,        \* main: what the calls of assign_slots returned so far
    df_filtered,    \* sync_sheet: the submissions inside the term's window
    df_clean        \* sync_sheet: the rows written to availability.xlsx

vars == <<people, cal_assign, person_assign, person_state, warnings, phase,
          pc, graph, flow, max_f, src, snk, calls, df, results,
          df_filtered, df_clean>>

syncVars == <<df_filtered, df_clean>>

mainVars == <<df, results, syncVars>>

schedVars == <<people, cal_assign, person_assign, person_state, warnings,
               phase>>

-----------------------------------------------------------------------------
(* Bounds of the model *)

\* longest roster
MaxPeople == 3
\* number of days of the modelled month (day 1 is a Thursday)
MonthLen == 8
\* largest capacity the solver driver passes to add_edge
MaxCap == 2
\* number of labels of TIME_SLOTS the model keeps
MaxSlots == 2

-----------------------------------------------------------------------------
(* Python dict as an insertion-ordered association list *)

DictKeys(d) == {d[i][1] : i \in 1..Len(d)}

DictHas(d, k) == k \in DictKeys(d)

\* d.get(k, default)
DictGet(d, k, default) ==
    IF DictHas(d, k)
    THEN LET i == CHOOSE j \in 1..Len(d) : d[j][1] = k IN d[i][2]
    ELSE default

\* d[k] = val : an existing key keeps its position, a new key goes last
DictSet(d, k, val) ==
    IF DictHas(d, k)
    THEN LET i == CHOOSE j \in 1..Len(d) : d[j][1] = k
         IN [d EXCEPT ![i] = <<k, val>>]
    ELSE Append(d, <<k, val>>)

\* defaultdict(dict)[u] read access: a missing key reads as the empty dict
Sub(dd, u) == IF u \in DOMAIN dd THEN dd[u] ELSE <<>>

\* defaultdict(dict)[u][v] = val
SubSet(dd, u, v, val) == (u :> DictSet(Sub(dd, u), v, val)) @@ dd

\* the side effect of a bare read dd[u] on a defaultdict: the key now exists
Touch(dd, u) == IF u \in DOMAIN dd THEN dd ELSE dd @@ (u :> <<>>)

Min(a, b) == IF a < b THEN a ELSE b

\* F(e), with e computed once, before F reads it.  The loops below hand
\* each iteration's result to the next iteration this way, as the code's
\* loops do with the objects they update in place.
With(e, F(_)) == CHOOSE y \in {F(z) : z \in {e}} : TRUE

-----------------------------------------------------------------------------
(* FlowSolver.  A solver value is the record [graph, flow]. *)

EmptySolver == [graph |-> <<>>, flow |-> <<>>]

\* mutant: overwrites the capacity instead of adding to it
add_edge_overwrite(S, u, v, cap) ==
    LET g1 == SubSet(S.graph, u, v, cap)
        g2 == SubSet(g1, v, u, DictGet(Sub(g1, v), u, 0) + 0)
        f0 == Touch(S.flow, u)
        f1 == IF ~DictHas(Sub(f0, u), v) THEN SubSet(f0, u, v, 0) ELSE f0
        f2 == Touch(f1, v)
        f3 == IF ~DictHas(Sub(f2, v), u) THEN SubSet(f2, v, u, 0) ELSE f2
    IN [graph |-> g2, flow |-> f3]

add_edge(S, u, v, cap) ==
    With(SubSet(S.graph, u, v, DictGet(Sub(S.graph, u), v, 0) + cap), LAMBDA g1 :
    With(SubSet(g1, v, u, DictGet(Sub(g1, v), u, 0) + 0), LAMBDA g2 :
    With(Touch(S.flow, u), LAMBDA f0 :
    With(IF ~DictHas(Sub(f0, u), v) THEN SubSet(f0, u, v, 0) ELSE f0, LAMBDA f1 :
    With(Touch(f1, v), LAMBDA f2 :
    With(IF ~DictHas(Sub(f2, v), u) THEN SubSet(f2, v, u, 0) ELSE f2, LAMBDA f3 :
        [graph |-> g2, flow |-> f3]))))))

\* d[k] of a key that must be present (a KeyError otherwise)
DictAt(d, k) == LET i == CHOOSE j \in 1..Len(d) : d[j][1] = k IN d[i][2]

\* mutant: forgets the capacity
Residual_noCap(S, u, v) == DictAt(S.flow[u], v)

\* self.graph[u][v] - self.flow[u][v], the residual capacity in max_flow
Residual(S, u, v) == DictAt(S.graph[u], v) - DictAt(S.flow[u], v)

\* mutant: follows forward edges only, never cancels flow over a reverse edge
RECURSIVE bfs_scan_forward(_, _, _, _, _)
bfs_scan_forward(S, u, items, i, st) ==
    IF i > Len(items) THEN st
    ELSE LET v   == items[i][1]
             cap == items[i][2]
         IN IF v \notin st.visited /\ cap - DictAt(S.flow[u], v) > 0 /\
               DictAt(S.flow[u], v) >= 0
            THEN bfs_scan_forward(S, u, items, i + 1,
                          [visited |-> st.visited \cup {v},
                           queue   |-> Append(st.queue, v),
                           parent  |-> (v :> u) @@ st.parent])
            ELSE bfs_scan_forward(S, u, items, i + 1, st)

\* the for-loop of bfs over self.graph[u].items(); st = [visited, queue, parent]
RECURSIVE bfs_scan(_, _, _, _, _)
bfs_scan(S, u, items, i, st) ==
    IF i > Len(items) THEN st
    ELSE LET v   == items[i][1]
             cap == items[i][2]
         IN IF v \notin st.visited /\ cap - DictAt(S.flow[u], v) > 0
            THEN With([visited |-> st.visited \cup {v},
                       queue   |-> Append(st.queue, v),
                       parent  |-> (v :> u) @@ st.parent],
                      LAMBDA st1 : bfs_scan(S, u, items, i + 1, st1))
            ELSE bfs_scan(S, u, items, i + 1, st)

\* the while-loop of bfs; reading self.graph[u] creates a missing key
RECURSIVE bfs_loop(_, _, _)
bfs_loop(S, t, st) ==
    IF st.queue = <<>>
    THEN [found |-> FALSE, parent |-> st.parent, graph |-> S.graph]
    ELSE LET u == Head(st.queue)
         IN IF u = t
            THEN [found |-> TRUE, parent |-> st.parent, graph |-> S.graph]
            ELSE With([S EXCEPT !.graph = Touch(S.graph, u)], LAMBDA S1 :
                    With(bfs_scan(S1, u, S1.graph[u], 1,
                                  [st EXCEPT !.queue = Tail(st.queue)]),
                         LAMBDA st1 : bfs_loop(S1, t, st1)))

bfs(S, s, t) ==
    bfs_loop(S, t, [visited |-> {s}, queue |-> <<s>>, parent |-> <<>>])

\* path_flow: <<>> stands for float('inf'), <<n>> for the number n
RECURSIVE path_flow(_, _, _, _, _)
path_flow(S, parent, s, v, acc) ==
    IF v = s THEN acc
    ELSE LET u == parent[v]
             r == Residual(S, u, v)
         IN With(IF acc = <<>> THEN <<r>> ELSE <<Min(acc[1], r)>>,
                 LAMBDA acc1 : path_flow(S, parent, s, u, acc1))

\* mutant: the reverse entries are left as they are
RECURSIVE push_flow_forward(_, _, _, _, _)
push_flow_forward(fl, parent, s, v, pf) ==
    IF v = s THEN fl
    ELSE LET u == parent[v]
         IN With(SubSet(fl, u, v, DictAt(fl[u], v) + pf), LAMBDA f1 :
               push_flow_forward(f1, parent, s, u, pf))

\* the second walk of max_flow: flow[u][v] += path_flow, flow[v][u] -= path_flow
RECURSIVE push_flow(_, _, _, _, _)
push_flow(fl, parent, s, v, pf) ==
    IF v = s THEN fl
    ELSE LET u == parent[v]
         IN With(SubSet(fl, u, v, DictAt(fl[u], v) + pf), LAMBDA f1 :
               With(SubSet(f1, v, u, DictAt(f1[v], u) - pf), LAMBDA f2 :
                  push_flow(f2, parent, s, u, pf)))

-----------------------------------------------------------------------------
(* The month and the configuration *)

\* TIME_SLOTS, cut to its first MaxSlots labels
TIME_SLOTS ==
    SubSeq(<<"8AM-10AM", "10AM-12PM", "12PM-2PM", "2PM-4PM", "4PM-6PM">>,
           1, MaxSlots)

\* calendar.day_name
day_name == <<"Monday", "Tuesday", "Wednesday", "Thursday", "Friday",
              "Saturday", "Sunday">>

\* dt.weekday() of day dt of the modelled month, whose day 1 is a Thursday
Weekday(dt) == (dt + 2) % 7

\* mutant: the weekday name is wrong from the second week on
DayName_drift(dt) == day_name[((Weekday(dt) + (dt - 1) \div 7) % 7) + 1]

\* calendar.day_name[dt.weekday()]
DayName(dt) == day_name[Weekday(dt) + 1]

\* cal.itermonthdates: whole weeks, Monday first, padded with the days of the
\* neighbouring months (days below 1 and above MonthLen)
itermonthdates ==
    LET first == 1 - Weekday(1)
        last  == MonthLen + (6 - Weekday(MonthLen))
    IN [i \in 1..(last - first + 1) |-> first + i - 1]

RECURSIVE Insert(_, _)
Insert(sq, x) ==
    IF sq = <<>> THEN <<x>>
    ELSE IF x < Head(sq) THEN <<x>> \o sq
    ELSE <<Head(sq)>> \o Insert(Tail(sq), x)

RECURSIVE sorted(_)
sorted(sq) == IF sq = <<>> THEN <<>> ELSE Insert(sorted(Tail(sq)), Head(sq))

InMonth(dt) == dt \in 1..MonthLen

\* mutant: forgets the weekend test
get_month_dates_weekends ==
    sorted(SelectSeq(itermonthdates, LAMBDA dt : InMonth(dt)))

get_month_dates ==
    sorted(SelectSeq(itermonthdates,
                     LAMBDA dt : InMonth(dt) /\ ~(Weekday(dt) >= 5)))

dates == get_month_dates

DateSet == {dates[i] : i \in 1..Len(dates)}

SlotSet == {TIME_SLOTS[i] : i \in 1..Len(TIME_SLOTS)}

\* all_slots: every (date, slot) in date order, then slot order
all_slots ==
    [k \in 1..(Len(dates) * Len(TIME_SLOTS)) |->
        <<dates[((k - 1) \div Len(TIME_SLOTS)) + 1],
          TIME_SLOTS[((k - 1) % Len(TIME_SLOTS)) + 1]>>]

-----------------------------------------------------------------------------
(* Node identifiers.  The code formats them as strings joined by "_" and    *)
(* parses a slot node back with split("_"); a node is modelled as the tuple *)
(* of the parts that split("_") yields.                                     *)

SOURCE == <<"SOURCE">>
SINK == <<"SINK">>
PersonNode(name) == <<"PERSON", name>>
DayNode(name, dt) == <<"DAY", name, dt>>
SlotNode(dt, slot) == <<"SLOT", dt, slot>>

\* node.startswith(tag + "_")
StartsWith(node, tag) == node[1] = tag

\* parts = slot_node.split('_'); date.fromisoformat(parts[1]), parts[2]
ParseSlot(node) == [dt |-> node[2], slot |-> node[3]]

-----------------------------------------------------------------------------
(* run_flow_phase *)

\* the phases in order: 1 Senior Spread, 2 Senior Depth, 3..7 General Fill
\* with target_cap = 1..5
NumPhases == 7

\* mutant: the sub-phases stop raising the target at 4
target_cap_four(ph) == Min(ph - 2, 4)

target_cap(ph) == ph - 2

\* target_group_filter of phase ph
target_group_filter(ph, p) == IF ph <= 2 THEN p.senior ELSE TRUE

\* mutant: an empty slot takes two people at once
cap_phase1_two(curr) == IF curr = 0 THEN 2 ELSE 0

cap_phase1(curr) == IF curr = 0 THEN 1 ELSE 0

cap_phase2(curr) == IF curr < 2 THEN 2 - curr ELSE 0

cap_phase_general(tc, curr) == IF curr >= tc THEN 0 ELSE tc - curr

\* slot_cap_fn of phase ph
slot_cap_fn(ph, curr) ==
    IF ph = 1 THEN cap_phase1(curr)
    ELSE IF ph = 2 THEN cap_phase2(curr)
    ELSE cap_phase_general(target_cap(ph), curr)

\* active_people: the roster entries the filter keeps, in roster order
active_people(ph) == SelectSeq(people, LAMBDA p : target_group_filter(ph, p))

\* any(sp['name'] == x and sp['senior'] for sp in people)
IsSeniorName(x) == \E i \in 1..Len(people) : people[i].name = x /\ people[i].senior

\* len([x for x in cal[dt][slot] if any(...)])
seniors_in_slot(cal, dt, slot) ==
    Cardinality({i \in 1..Len(cal[dt][slot]) : IsSeniorName(cal[dt][slot][i])})

\* mutant: everybody is available for every configured slot
AvailOn_always(p, dayname) == SlotSet

\* p['availability'].get(dayname, [])
AvailOn(p, dayname) ==
    IF dayname \in DOMAIN p.availability THEN p.availability[dayname] ELSE {}

\* the loop over TIME_SLOTS for one person and one date;
\* acc = [S, day_has_slots]
RECURSIVE build_slots(_, _, _, _, _)
build_slots(ph, p, dt, j, acc) ==
    IF j > Len(TIME_SLOTS) THEN acc
    ELSE LET slot == TIME_SLOTS[j]
             curr == Len(cal_assign[dt][slot])
             acc1 == IF slot \notin AvailOn(p, DayName(dt))
                     THEN acc
                     ELSE IF p.senior /\ seniors_in_slot(cal_assign, dt, slot) >= 2
                     THEN acc
                     ELSE IF slot_cap_fn(ph, curr) <= 0
                     THEN acc
                     ELSE [S |-> add_edge(acc.S, DayNode(p.name, dt),
                                          SlotNode(dt, slot), 1),
                           day_has_slots |-> TRUE]
         IN With(<<j + 1, acc1>>,
                 LAMBDA n : build_slots(ph, p, dt, n[1], n[2]))

\* the loop over dates for one person
RECURSIVE build_dates(_, _, _, _)
build_dates(ph, p, i, S) ==
    IF i > Len(dates) THEN S
    ELSE LET dt == dates[i]
             S1 == IF dt \in person_state[p.name].days_worked
                   THEN S
                   ELSE With(build_slots(ph, p, dt, 1,
                                         [S |-> S, day_has_slots |-> FALSE]),
                             LAMBDA r :
                                IF r.day_has_slots
                                THEN add_edge(r.S, PersonNode(p.name),
                                              DayNode(p.name, dt), 1)
                                ELSE r.S)
         IN With(<<i + 1, S1>>, LAMBDA n : build_dates(ph, p, n[1], n[2]))

\* step 1: the loop over active_people
RECURSIVE build_people(_, _, _, _)
build_people(ph, act, k, S) ==
    IF k > Len(act) THEN S
    ELSE With(act[k], LAMBDA p :
         LET remaining_quota == 2 - person_state[p.name].shifts
             S2 == IF remaining_quota <= 0
                   THEN S
                   ELSE With(add_edge(S, SOURCE, PersonNode(p.name),
                                      remaining_quota),
                             LAMBDA S1 : build_dates(ph, p, 1, S1))
         IN With(<<k + 1, S2>>, LAMBDA n : build_people(ph, act, n[1], n[2])))

\* step 2: Slot -> Sink edges, once per slot
RECURSIVE build_sinks(_, _, _)
build_sinks(ph, k, S) ==
    IF k > Len(all_slots) THEN S
    ELSE LET dt   == all_slots[k][1]
             slot == all_slots[k][2]
             cap  == slot_cap_fn(ph, Len(cal_assign[dt][slot]))
             S1   == IF cap > 0 THEN add_edge(S, SlotNode(dt, slot), SINK, cap)
                     ELSE S
         IN With(<<k + 1, S1>>, LAMBDA n : build_sinks(ph, n[1], n[2]))

\* steps 1 and 2 of run_flow_phase on a fresh FlowSolver
build_graph(ph) ==
    With(active_people(ph), LAMBDA act :
    With(build_people(ph, act, 1, EmptySolver), LAMBDA S :
        build_sinks(ph, 1, S)))

\* the stores the commit step writes
Stores == [cal |-> cal_assign, pa |-> person_assign, ps |-> person_state]

\* mutant: forgets to record the date as worked
commit_one_noday(st, name, dt, slot) ==
    [cal |-> [st.cal EXCEPT ![dt][slot] = Append(@, name)],
     pa  |-> [st.pa EXCEPT ![name] = Append(@, <<dt, slot>>)],
     ps  |-> [st.ps EXCEPT ![name] =
                 [shifts |-> @.shifts + 1, days_worked |-> @.days_worked]]]

\* mutant: puts the new name in front of the slot's list
commit_one_prepend(st, name, dt, slot) ==
    [cal |-> [st.cal EXCEPT ![dt][slot] = <<name>> \o @],
     pa  |-> [st.pa EXCEPT ![name] = Append(@, <<dt, slot>>)],
     ps  |-> [st.ps EXCEPT ![name] =
                 [shifts |-> @.shifts + 1,
                  days_worked |-> @.days_worked \cup {dt}]]]

\* lines 302-305: one committed assignment
commit_one(st, name, dt, slot) ==
    [cal |-> [st.cal EXCEPT ![dt][slot] = Append(@, name)],
     pa  |-> [st.pa EXCEPT ![name] = Append(@, <<dt, slot>>)],
     ps  |-> [st.ps EXCEPT ![name] =
                 [shifts |-> @.shifts + 1,
                  days_worked |-> @.days_worked \cup {dt}]]]

\* the loop over solver.flow[day_node].items()
RECURSIVE extract_slots(_, _, _, _)
extract_slots(name, items, j, st) ==
    IF j > Len(items) THEN st
    ELSE LET slot_node == items[j][1]
             s_flow    == items[j][2]
         IN With(IF s_flow > 0 /\ StartsWith(slot_node, "SLOT")
                 THEN commit_one(st, name, ParseSlot(slot_node).dt,
                                 ParseSlot(slot_node).slot)
                 ELSE st,
                 LAMBDA st1 : extract_slots(name, items, j + 1, st1))

\* the loop over solver.flow[p_node].items()
RECURSIVE extract_days(_, _, _, _)
extract_days(name, items, i, st) ==
    IF i > Len(items) THEN st
    ELSE LET day_node == items[i][1]
             flow_val == items[i][2]
         IN With(IF flow_val > 0 /\ StartsWith(day_node, "DAY")
                 THEN extract_slots(name, flow[day_node], 1, st)
                 ELSE st,
                 LAMBDA st1 : extract_days(name, items, i + 1, st1))

\* step 4: the loop over active_people
RECURSIVE extract(_, _, _)
extract(act, k, st) ==
    IF k > Len(act) THEN st
    ELSE LET name   == act[k].name
             p_node == PersonNode(name)
         IN With(IF p_node \notin DOMAIN flow THEN st
                 ELSE extract_days(name, flow[p_node], 1, st),
                 LAMBDA st1 : extract(act, k + 1, st1))

\* mutant: also warns about a person who is at quota
RECURSIVE shift_warnings_atquota(_, _)
shift_warnings_atquota(k, w) ==
    IF k > Len(people) THEN w
    ELSE LET c == person_state[people[k].name].shifts
         IN With(IF c <= 2
                 THEN Append(w, [kind |-> "shifts", name |-> people[k].name,
                                 count |-> c])
                 ELSE w,
                 LAMBDA w1 : shift_warnings_atquota(k + 1, w1))

\* the first warning loop: people below the target of 2 shifts
RECURSIVE shift_warnings(_, _)
shift_warnings(k, w) ==
    IF k > Len(people) THEN w
    ELSE LET c == person_state[people[k].name].shifts
         IN With(IF c < 2
                 THEN Append(w, [kind |-> "shifts", name |-> people[k].name,
                                 count |-> c])
                 ELSE w,
                 LAMBDA w1 : shift_warnings(k + 1, w1))

\* mutant: forgets that an empty slot gets no warning
RECURSIVE slot_warnings_empty(_, _)
slot_warnings_empty(k, w) ==
    IF k > Len(all_slots) THEN w
    ELSE LET dt       == all_slots[k][1]
             slot     == all_slots[k][2]
             assigned == cal_assign[dt][slot]
         IN With(IF ~(\E i \in 1..Len(assigned) : IsSeniorName(assigned[i]))
                 THEN Append(w, [kind |-> "nosenior", dt |-> dt, slot |-> slot,
                                 count |-> Len(assigned)])
                 ELSE w,
                 LAMBDA w1 : slot_warnings_empty(k + 1, w1))

\* the second warning loop: slots that hold people but no senior
RECURSIVE slot_warnings(_, _)
slot_warnings(k, w) ==
    IF k > Len(all_slots) THEN w
    ELSE LET dt       == all_slots[k][1]
             slot     == all_slots[k][2]
             assigned == cal_assign[dt][slot]
         IN With(IF assigned # <<>> /\
                    ~(\E i \in 1..Len(assigned) : IsSeniorName(assigned[i]))
                 THEN Append(w, [kind |-> "nosenior", dt |-> dt, slot |-> slot,
                                 count |-> Len(assigned)])
                 ELSE w,
                 LAMBDA w1 : slot_warnings(k + 1, w1))

-----------------------------------------------------------------------------
(* The rosters the model runs assign_slots on *)

Names == {"Ann", "Bob"}

\* the availability maps a roster entry may carry.  Only Thursday and Friday
\* are ever listed (every other weekday is absent from the map), and
\* "6PM-8PM" is a label that is not in TIME_SLOTS.
Availabilities ==
    { <<>>,
      [d \in {"Thursday", "Friday"} |->
          IF d = "Friday" THEN {"8AM-10AM"} ELSE {}],
      [d \in {"Thursday"} |-> {"8AM-10AM"}],
      [d \in {"Thursday"} |-> {"8AM-10AM", "10AM-12PM"}],
      [d \in {"Thursday", "Friday"} |->
          IF d = "Thursday" THEN {"8AM-10AM"} ELSE {"10AM-12PM", "6PM-8PM"}] }

Persons == [name : Names, senior : BOOLEAN, availability : Availabilities]

\* load_availability's result: a list of dicts, one per row, the ucid being
\* distinct per row.  Rosters are taken up to renaming: the first entry,
\* if any, is called "Ann".
Rosters ==
    UNION {{[i \in 1..n |-> [name |-> r[i].name, ucid |-> i,
                             senior |-> r[i].senior,
                             availability |-> r[i].availability]] :
            r \in {q \in [1..n -> Persons] : n > 0 => q[1].name = "Ann"}} :
           n \in 0..MaxPeople}

RosterNames(r) == {r[i].name : i \in 1..Len(r)}

\* the value of df where main and its sheet are not part of the run
NoSheet == [columns |-> <<>>, rows |-> <<>>]

-----------------------------------------------------------------------------
(* assign_slots as a state machine *)

Init ==
    /\ people \in Rosters
    /\ cal_assign = [dt \in DateSet |-> [slot \in SlotSet |-> <<>>]]
    /\ person_assign = [n \in RosterNames(people) |-> <<>>]
    /\ person_state = [n \in RosterNames(people) |->
                          [shifts |-> 0, days_worked |-> {}]]
    /\ warnings = <<>>
    /\ phase = 1
    /\ pc = "build"
    /\ graph = <<>>
    /\ flow = <<>>
    /\ max_f = 0
    /\ src = SOURCE
    /\ snk = SINK
    /\ calls = 0
    /\ df = NoSheet
    /\ results = <<>>
    /\ df_filtered = <<>>
    /\ df_clean = <<>>

\* run_flow_phase, steps 1 and 2, then the call of max_flow(SOURCE, SINK)
BuildPhase ==
    /\ pc = "build"
    /\ phase <= NumPhases
    /\ \E S \in {build_graph(phase)} :
          /\ graph' = S.graph
          /\ flow' = S.flow
    /\ max_f' = 0
    /\ src' = SOURCE
    /\ snk' = SINK
    /\ pc' = "solve"
    /\ UNCHANGED <<schedVars, calls, mainVars>>

\* one iteration of max_flow's while-loop that finds an augmenting path
MaxFlowIter ==
    /\ pc = "solve"
    /\ \E r \in {bfs([graph |-> graph, flow |-> flow], src, snk)} :
          /\ r.found
          /\ \E pf \in {path_flow([graph |-> r.graph, flow |-> flow],
                                   r.parent, src, snk, <<>>)} :
                /\ flow' = push_flow(flow, r.parent, src, snk, pf[1])
                /\ max_f' = max_f + pf[1]
          /\ graph' = r.graph
    /\ UNCHANGED <<pc, src, snk, schedVars, calls, mainVars>>

\* the last iteration: bfs finds no path and max_flow returns max_f
MaxFlowReturn ==
    /\ pc = "solve"
    /\ \E r \in {bfs([graph |-> graph, flow |-> flow], src, snk)} :
          /\ ~r.found
          /\ graph' = r.graph
    /\ pc' = "returned"
    /\ UNCHANGED <<flow, max_f, src, snk, schedVars, calls,
                   mainVars>>

\* mutant: a phase whose flow is zero stops the run
CommitPhase_abort ==
    /\ pc = "returned"
    /\ phase \in 1..NumPhases
    /\ max_f > 0
    /\ \E st \in {extract(active_people(phase), 1, Stores)} :
          /\ cal_assign' = st.cal
          /\ person_assign' = st.pa
          /\ person_state' = st.ps
    /\ phase' = phase + 1
    /\ pc' = IF phase = NumPhases THEN "warn" ELSE "build"
    /\ UNCHANGED <<people, warnings, graph, flow, max_f, src, snk, calls,
                   mainVars>>

\* run_flow_phase, step 4, and the move to the next phase
CommitPhase ==
    /\ pc = "returned"
    /\ phase \in 1..NumPhases
    /\ \E st \in {extract(active_people(phase), 1, Stores)} :
          /\ cal_assign' = st.cal
          /\ person_assign' = st.pa
          /\ person_state' = st.ps
    /\ phase' = phase + 1
    /\ pc' = IF phase = NumPhases THEN "warn" ELSE "build"
    /\ UNCHANGED <<people, warnings, graph, flow, max_f, src, snk, calls,
                   mainVars>>

\* mutant: the slot loop reverses every list it reads
Warn_reverses ==
    /\ pc = "warn"
    /\ warnings' = slot_warnings(1, shift_warnings(1, <<>>))
    /\ cal_assign' =
          [dt \in DOMAIN cal_assign |->
              [slot \in DOMAIN cal_assign[dt] |->
                  [i \in 1..Len(cal_assign[dt][slot]) |->
                      cal_assign[dt][slot][Len(cal_assign[dt][slot]) + 1 - i]]]]
    /\ pc' = "done"
    /\ UNCHANGED <<people, person_assign, person_state, phase,
                   graph, flow, max_f, src, snk, calls, mainVars>>

\* mutant: the under-quota loop is left out
Warn_noshifts ==
    /\ pc = "warn"
    /\ warnings' = slot_warnings(1, <<>>)
    /\ pc' = "done"
    /\ UNCHANGED <<people, cal_assign, person_assign, person_state, phase,
                   graph, flow, max_f, src, snk, calls, mainVars>>

\* the warning loops and the return of assign_slots
Warn ==
    /\ pc = "warn"
    /\ warnings' = slot_warnings(1, shift_warnings(1, <<>>))
    /\ pc' = "done"
    /\ UNCHANGED <<people, cal_assign, person_assign, person_state, phase,
                   graph, flow, max_f, src, snk, calls, mainVars>>

Next == BuildPhase \/ MaxFlowIter \/ MaxFlowReturn \/ CommitPhase \/ Warn

Spec == Init /\ [][Next]_vars

\* assign_slots on crowded rosters: more people than a slot admits, all of
\* them asking for the first slot of the one Friday of the month
MaxCrowd == 6

CrowdNames == <<"Ann", "Bob", "Cy", "Dee", "Eve", "Fay", "Gus">>

\* everybody lists Friday 8AM-10AM and nothing else
CrowdAvailability == [d \in {"Friday"} |-> {"8AM-10AM"}]

\* load_availability's result for a sheet of MaxCrowd rows with pairwise
\* distinct names, any of them senior
CrowdRosters ==
    {[i \in 1..MaxCrowd |-> [name |-> CrowdNames[i], ucid |-> i,
                             senior |-> r[i],
                             availability |-> CrowdAvailability]] :
     r \in [1..MaxCrowd -> BOOLEAN]}

InitCrowd ==
    /\ people \in Rosters \cup CrowdRosters
    /\ cal_assign = [dt \in DateSet |-> [slot \in SlotSet |-> <<>>]]
    /\ person_assign = [n \in RosterNames(people) |-> <<>>]
    /\ person_state = [n \in RosterNames(people) |->
                          [shifts |-> 0, days_worked |-> {}]]
    /\ warnings = <<>>
    /\ phase = 1
    /\ pc = "build"
    /\ graph = <<>>
    /\ flow = <<>>
    /\ max_f = 0
    /\ src = SOURCE
    /\ snk = SINK
    /\ calls = 0
    /\ df = NoSheet
    /\ results = <<>>
    /\ df_filtered = <<>>
    /\ df_clean = <<>>

SpecCrowd == InitCrowd /\ [][Next]_vars

-----------------------------------------------------------------------------
(* main: load_availability, then assign_slots once per month of the term.  *)
(* Every month of the model has the layout of the modelled month, so the   *)
(* calls of main are calls of assign_slots with identical input.           *)

\* number of months of the term the model keeps
MaxMonths == 2

\* the months of the Winter term (the Fall term has four as well)
months == SubSeq(<<1, 2, 3, 4>>, 1, MaxMonths)

\* str.lower on the words the sheets of the model are written with.  A
\* column name is the tuple of its words; blanks and punctuation between
\* them are what filter(str.isalnum, ...) removes.
lower ==
    ("Timestamp" :> "timestamp") @@ ("First" :> "first") @@ ("Last" :> "last")
    @@ ("Name" :> "name") @@ ("UCID" :> "ucid") @@ ("Senior" :> "senior")
    @@ ("Status" :> "status") @@ ("Monday" :> "monday")
    @@ ("Tuesday" :> "tuesday") @@ ("Wednesday" :> "wednesday")
    @@ ("Thursday" :> "thursday") @@ ("Friday" :> "friday")
    @@ ("Yes" :> "yes") @@ ("No" :> "no")

\* _normalize_cols: every column name in lower case
normalize_cols(columns) ==
    [i \in 1..Len(columns) |->
        [j \in 1..Len(columns[i]) |-> lower[columns[i][j]]]]

\* the value of a column that was not found
None == <<>>

\* _find_col: the first column whose name contains all keywords (a keyword
\* is contained when it is one of the words of the name)
find_col(cols, keywords) ==
    LET hits == {i \in 1..Len(cols) :
                    keywords \subseteq {cols[i][j] : j \in 1..Len(cols[i])}}
    IN IF hits = {} THEN None
       ELSE cols[CHOOSE i \in hits : \A j \in hits : i <= j]

days == <<"monday", "tuesday", "wednesday", "thursday", "friday">>

\* str.capitalize on the names of the days
capitalize ==
    ("monday" :> "Monday") @@ ("tuesday" :> "Tuesday")
    @@ ("wednesday" :> "Wednesday") @@ ("thursday" :> "Thursday")
    @@ ("friday" :> "Friday")

\* the columns load_availability looks for: label and keywords
required ==
    <<<<"First Name", {"first", "name"}>>, <<"Last Name", {"last", "name"}>>,
      <<"UCID", {"ucid"}>>, <<"Senior Status", {"senior"}>>>>
    \o [i \in 1..Len(days) |-> <<capitalize[days[i]], {days[i]}>>]

\* mutant: only the name columns are checked
missing_names(d) ==
    SelectSeq(SubSeq(required, 1, 2),
              LAMBDA r : find_col(normalize_cols(d.columns), r[2]) = None)

\* the list 'missing' of load_availability
missing(d) ==
    SelectSeq(required,
              LAMBDA r : find_col(normalize_cols(d.columns), r[2]) = None)

\* f"{first} {last}".strip()
strip_join(first, last) ==
    IF last = "" THEN first
    ELSE IF first = "" THEN last
    ELSE first \o " " \o last

\* one row of the sheet as a roster entry; a cell of a day column is the
\* list of its comma separated parts
load_row(row) ==
    [name |-> strip_join(row.first, row.last),
     ucid |-> row.ucid,
     senior |-> lower[row.senior] = "yes",
     availability |->
        [d \in {capitalize[days[i]] : i \in 1..Len(days)} |->
            LET cell == row.cells[CHOOSE x \in DOMAIN capitalize :
                                     capitalize[x] = d]
            IN {cell[j] : j \in 1..Len(cell)}]]

\* the list 'people' load_availability returns
load_people(d) == [i \in 1..Len(d.rows) |-> load_row(d.rows[i])]

\* the slot labels the cells of the model are written with
Labels == <<"8AM-10AM", "10AM-12PM", "12PM-2PM", "2PM-4PM", "4PM-6PM",
            "6PM-8PM">>

\* the rows of a sheet that loads as roster r
RowsOf(r) ==
    [i \in 1..Len(r) |->
        [first |-> r[i].name, last |-> "", ucid |-> r[i].ucid,
         senior |-> IF r[i].senior THEN "Yes" ELSE "No",
         cells |-> [d \in DOMAIN capitalize |->
                      SelectSeq(Labels,
                                LAMBDA l : l \in AvailOn(r[i], capitalize[d]))]]]

\* the header of the availability form
FullHeader ==
    <<<<"Timestamp">>, <<"First", "Name">>, <<"Last", "Name">>, <<"UCID">>,
      <<"Senior", "Status">>, <<"Monday">>, <<"Tuesday">>, <<"Wednesday">>,
      <<"Thursday">>, <<"Friday">>>>

\* a header without its i-th column
Drop(h, i) == SubSeq(h, 1, i - 1) \o SubSeq(h, i + 1, Len(h))

\* the sheets of the model: the full header with every roster, and every
\* header that lacks one column, or has one column "Name" for both names,
\* with the rosters of at most one row
Sheets ==
    {[columns |-> FullHeader, rows |-> RowsOf(r)] : r \in Rosters}
    \cup {[columns |-> h, rows |-> RowsOf(r)] :
             h \in {Drop(FullHeader, i) : i \in 1..Len(FullHeader)}
                   \cup {<<<<"Name">>>> \o SubSeq(FullHeader, 4, 10)},
             r \in {q \in Rosters : Len(q) <= 1}}

InitMain ==
    /\ df \in Sheets
    /\ pc = "load"
    /\ people = <<>>
    /\ cal_assign = <<>>
    /\ person_assign = <<>>
    /\ person_state = <<>>
    /\ warnings = <<>>
    /\ phase = 0
    /\ graph = <<>>
    /\ flow = <<>>
    /\ max_f = 0
    /\ src = SOURCE
    /\ snk = SINK
    /\ calls = 0
    /\ results = <<>>
    /\ df_filtered = <<>>
    /\ df_clean = <<>>

\* people = load_availability(args.input): the list of people, or the
\* ValueError, which nothing in main catches
Load ==
    /\ pc = "load"
    /\ IF missing(df) # <<>>
       THEN /\ pc' = "ValueError"
            /\ people' = people
       ELSE /\ pc' = "call"
            /\ people' = load_people(df)
    /\ UNCHANGED <<cal_assign, person_assign, person_state, warnings, phase,
                   graph, flow, max_f, src, snk, calls, mainVars>>

\* mutant: the person state of the previous call is kept
CallAssignSlots_keepstate ==
    /\ pc = "call"
    /\ cal_assign' = [dt \in DateSet |-> [slot \in SlotSet |-> <<>>]]
    /\ person_assign' = [n \in RosterNames(people) |-> <<>>]
    /\ person_state' = IF results = <<>>
                       THEN [n \in RosterNames(people) |->
                                [shifts |-> 0, days_worked |-> {}]]
                       ELSE person_state
    /\ warnings' = <<>>
    /\ phase' = 1
    /\ pc' = "build"
    /\ graph' = <<>>
    /\ flow' = <<>>
    /\ max_f' = 0
    /\ UNCHANGED <<people, src, snk, calls, mainVars>>

\* main calls assign_slots(people, m, args.year): the setup of the call
CallAssignSlots ==
    /\ pc = "call"
    /\ cal_assign' = [dt \in DateSet |-> [slot \in SlotSet |-> <<>>]]
    /\ person_assign' = [n \in RosterNames(people) |-> <<>>]
    /\ person_state' = [n \in RosterNames(people) |->
                           [shifts |-> 0, days_worked |-> {}]]
    /\ warnings' = <<>>
    /\ phase' = 1
    /\ pc' = "build"
    /\ graph' = <<>>
    /\ flow' = <<>>
    /\ max_f' = 0
    /\ UNCHANGED <<people, src, snk, calls, mainVars>>

\* main takes what the call returned and goes on to the next month, or to
\* the output after the last month
MergeResults ==
    /\ pc = "done"
    /\ Len(results) < Len(months)
    /\ results' = Append(results, [cal_assign |-> cal_assign,
                                    person_assign |-> person_assign,
                                    warnings |-> warnings])
    /\ pc' = IF Len(results) + 1 < Len(months) THEN "call" ELSE "output"
    /\ UNCHANGED <<schedVars, graph, flow, max_f, src, snk, calls, df,
                   syncVars>>

NextMain == Load \/ CallAssignSlots \/ MergeResults \/ Next

SpecMain == InitMain /\ [][NextMain]_vars

-----------------------------------------------------------------------------
(* sync_sheet.py: the submissions of the form, cut to the window of the    *)
(* term and to one row per UCID.  A timestamp is <<day, time of day>>.     *)

\* longest sheet of submissions
MaxRows == 3

\* the days a submission may bear, the window of the term among them
SyncDays == 0..3
start_date == 1
end_date == 2

\* find_column_by_keywords: the first column whose lower-cased name
\* contains all keywords
find_column_by_keywords(d, keywords) == find_col(normalize_cols(d.columns), keywords)

\* pd.to_datetime(df[ts_col]).dt.date: the day of a timestamp
to_date(ts) == ts[1]

\* the submissions one row may be
Submissions == [ucid : 1..2, ts : SyncDays \X (1..2)]

\* the sheets sync_sheet may fetch: any list of submissions under the
\* header of the form, and a single submission under a header that lacks
\* the timestamp or the UCID column
SyncSheets ==
    {[columns |-> FullHeader, rows |-> r] :
        r \in UNION {[1..n -> Submissions] : n \in 0..MaxRows}}
    \cup {[columns |-> h, rows |-> r] :
             h \in {Drop(FullHeader, 1), Drop(FullHeader, 4)},
             r \in [1..1 -> Submissions]}

\* lines 80-85: the timestamp column becomes a date, and the rows whose
\* date lies in the window stay, each under its index
filter_rows(rows) ==
    LET dated == [i \in 1..Len(rows) |->
                    [idx |-> i, ucid |-> rows[i].ucid, ts |-> to_date(rows[i].ts)]]
    IN SelectSeq(dated, LAMBDA r : r.ts >= start_date /\ r.ts <= end_date)

\* mutant: the rows come out newest first
sort_values_descending(rows) ==
    {[i \in 1..Len(rows) |-> rows[p[i]]] :
        p \in {q \in [1..Len(rows) -> 1..Len(rows)] :
                  /\ \A i, j \in 1..Len(rows) : i # j => q[i] # q[j]
                  /\ \A i, j \in 1..Len(rows) :
                        i < j => rows[q[i]].ts >= rows[q[j]].ts}}

\* sort_values(by=ts_col): the rows in the order of the column, which
\* holds dates by now.  The default sort is not a stable one: rows of one
\* date come out in any order.
sort_values(rows) ==
    {[i \in 1..Len(rows) |-> rows[p[i]]] :
        p \in {q \in [1..Len(rows) -> 1..Len(rows)] :
                  /\ \A i, j \in 1..Len(rows) : i # j => q[i] # q[j]
                  /\ \A i, j \in 1..Len(rows) :
                        i < j => rows[q[i]].ts <= rows[q[j]].ts}}

\* drop_duplicates(subset=[ucid_col], keep='last')
drop_duplicates(rows) ==
    LET last(i) == \A j \in (i + 1)..Len(rows) : rows[j].ucid # rows[i].ucid
        kept == {i \in 1..Len(rows) : last(i)}
        RECURSIVE pick(_)
        pick(i) == IF i > Len(rows) THEN <<>>
                   ELSE IF i \in kept THEN <<rows[i]>> \o pick(i + 1)
                   ELSE pick(i + 1)
    IN pick(1)

InitSync ==
    /\ df \in SyncSheets
    /\ pc = "sync"
    /\ df_filtered = <<>>
    /\ df_clean = <<>>
    /\ people = <<>>
    /\ cal_assign = <<>>
    /\ person_assign = <<>>
    /\ person_state = <<>>
    /\ warnings = <<>>
    /\ phase = 0
    /\ graph = <<>>
    /\ flow = <<>>
    /\ max_f = 0
    /\ src = SOURCE
    /\ snk = SINK
    /\ calls = 0
    /\ results = <<>>

\* lines 53-90: the two columns are looked up, the rows are filtered; a
\* missing column or an empty window ends the run with exit status 1
SyncFilter ==
    /\ pc = "sync"
    /\ IF \/ find_column_by_keywords(df, {"timestamp"}) = None
          \/ find_column_by_keywords(df, {"ucid"}) = None
       THEN /\ pc' = "exit"
            /\ df_filtered' = df_filtered
       ELSE /\ df_filtered' = filter_rows(df.rows)
            /\ pc' = IF filter_rows(df.rows) = <<>> THEN "exit" ELSE "filtered"
    /\ UNCHANGED <<schedVars, graph, flow, max_f, src, snk, calls, df,
                   results, df_clean>>

\* lines 93-98: sort, drop the duplicates, write the file
SyncClean ==
    /\ pc = "filtered"
    /\ \E sorted_rows \in sort_values(df_filtered) :
          df_clean' = drop_duplicates(sorted_rows)
    /\ pc' = "written"
    /\ UNCHANGED <<schedVars, graph, flow, max_f, src, snk, calls, df,
                   results, df_filtered>>

NextSync == SyncFilter \/ SyncClean

SpecSync == InitSync /\ [][NextSync]_vars

-----------------------------------------------------------------------------
(* The FlowSolver on its own: a driver that builds a graph with add_edge   *)
(* and then calls max_flow once, as run_flow_phase does                     *)

FlowNodes == {"s", "p", "q", "x", "y", "t"}

\* the edges the driver may add, in the order in which it adds them
DriverEdges ==
    << <<"s", "p">>, <<"s", "q">>, <<"p", "x">>, <<"p", "y">>, <<"q", "x">>,
       <<"x", "t">>, <<"y", "t">>, <<"x", "p">> >>

\* the nodes the driver uses as source and as sink
Terminals == {"s", "x", "t"}

InitFlow ==
    /\ people = <<>>
    /\ cal_assign = [dt \in DateSet |-> [slot \in SlotSet |-> <<>>]]
    /\ person_assign = <<>>
    /\ person_state = <<>>
    /\ warnings = <<>>
    /\ phase = 0
    /\ pc = "driver"
    /\ graph = <<>>
    /\ flow = <<>>
    /\ max_f = 0
    /\ src = "s"
    /\ snk = "t"
    /\ calls = 1
    /\ df = NoSheet
    /\ results = <<>>
    /\ df_filtered = <<>>
    /\ df_clean = <<>>

\* solver.add_edge(u, v, cap) on the next or a later edge of the list; an
\* edge may be added to again while its capacity stays within MaxCap
DriverAddEdge ==
    /\ pc = "driver"
    /\ \E i \in calls..Len(DriverEdges), cap \in 1..MaxCap :
          LET u == DriverEdges[i][1]
              v == DriverEdges[i][2]
              S == add_edge([graph |-> graph, flow |-> flow], u, v, cap)
          IN /\ DictGet(Sub(graph, u), v, 0) + cap <= MaxCap
             /\ graph' = S.graph
             /\ flow' = S.flow
             /\ calls' = i
    /\ UNCHANGED <<pc, max_f, src, snk, schedVars, mainVars>>

\* solver.max_flow(s, t) for distinct s and t
DriverMaxFlow ==
    /\ pc = "driver"
    /\ \E s \in Terminals, t \in Terminals :
          /\ s # t
          /\ src' = s
          /\ snk' = t
    /\ max_f' = 0
    /\ pc' = "solve"
    /\ UNCHANGED <<graph, flow, calls, schedVars, mainVars>>

NextFlow == DriverAddEdge \/ DriverMaxFlow \/ MaxFlowIter \/ MaxFlowReturn

SpecFlow == InitFlow /\ [][NextFlow]_vars

\* max_flow is a plain loop: once called it keeps running, so each of its
\* two steps is taken when it stays enabled.  The driver is free to stop.
LiveFlow ==
    SpecFlow /\ WF_vars(MaxFlowIter) /\ WF_vars(MaxFlowReturn)

-----------------------------------------------------------------------------
(* Properties of assign_slots *)

\* entries of the roster have pairwise distinct names
DistinctNames ==
    \A i, j \in 1..Len(people) : people[i].name = people[j].name => i = j

\* C1: in every state between phases and in the final result, every
\* person's shifts_assigned is at most the quota of 2.
C1_QuotaRespected ==
    \A n \in DOMAIN person_state : person_state[n].shifts <= 2

\* The quota holds on every roster whose names are pairwise distinct.
C1_QuotaRespectedDistinct == DistinctNames => C1_QuotaRespected

\* C2: every slot holds at most 2 senior-flagged people, after every phase
\* commit and in the final assignment.
C2_SeniorCapRespected ==
    \A dt \in DateSet, slot \in SlotSet :
        seniors_in_slot(cal_assign, dt, slot) <= 2

\* The senior cap holds on every roster whose names are pairwise distinct.
C2_SeniorCapRespectedDistinct == DistinctNames => C2_SeniorCapRespected

\* the assignments of list pa that fall on a date whose weekday is named w
OnWeekday(pa, w) == {i \in 1..Len(pa) : DayName(pa[i][1]) = w}

\* the assignments of list pa that fall on date dt
OnDate(pa, dt) == {i \in 1..Len(pa) : pa[i][1] = dt}

\* C3 as stated: no person is assigned to more than one slot on the same
\* weekday.  Read on the rosters whose names are pairwise distinct, where
\* every name is one person.
C3_OnePerWeekday ==
    DistinctNames =>
        \A n \in DOMAIN person_assign :
            \A i \in 1..Len(day_name) :
                Cardinality(OnWeekday(person_assign[n], day_name[i])) <= 1

\* C3 as amended: every date a person is assigned on is in their worked set,
\* and no step assigns a person on a date that is already in their worked
\* set (the worked set holds calendar dates, not weekdays).
C3_WorkedDateNeverReassigned ==
    [][ /\ \A n \in DOMAIN person_assign :
              \A i \in 1..Len(person_assign'[n]) :
                  person_assign'[n][i][1] \in person_state'[n].days_worked
        /\ \A n \in DOMAIN person_state :
              \A dt \in person_state[n].days_worked :
                  Cardinality(OnDate(person_assign'[n], dt)) =
                  Cardinality(OnDate(person_assign[n], dt)) ]_vars

\* C3 witness: the run is over and somebody works both Thursdays of the
\* month, one slot on each, both dates being in their worked set.
C3_Witness ==
    \E n \in DOMAIN person_state :
        /\ pc = "done"
        /\ Cardinality(OnWeekday(person_assign[n], "Thursday")) = 2
        /\ Cardinality(OnDate(person_assign[n], 1)) = 1
        /\ Cardinality(OnDate(person_assign[n], 8)) = 1
        /\ person_state[n].days_worked = {1, 8}

\* the roster entries named x that list slot for the weekday of dt
Candidates(x, dt, slot) ==
    {i \in 1..Len(people) :
        people[i].name = x /\ slot \in AvailOn(people[i], DayName(dt))}

\* C4: every name in a slot's list belongs to a roster person whose
\* availability for that slot's weekday contains that slot label; labels
\* that are not configured and weekdays absent from the availability map
\* never produce an assignment.
C4_AssignedOnlyWhereAvailable ==
    /\ \A dt \in DateSet, slot \in SlotSet :
          \A i \in 1..Len(cal_assign[dt][slot]) :
              Candidates(cal_assign[dt][slot][i], dt, slot) # {}
    /\ \A n \in DOMAIN person_assign :
          \A i \in 1..Len(person_assign[n]) :
              LET dt   == person_assign[n][i][1]
                  slot == person_assign[n][i][2]
              IN /\ dt \in DateSet
                 /\ slot \in SlotSet
                 /\ DayName(dt) \in
                        UNION {DOMAIN people[k].availability :
                               k \in 1..Len(people)}
                 /\ Candidates(n, dt, slot) # {}

\* C4 witness: the run is over, somebody who also lists the unconfigured
\* label "6PM-8PM" on Fridays was assigned a Friday slot.
C4_Witness ==
    /\ pc = "done"
    /\ \E k \in 1..Len(people) :
          /\ "6PM-8PM" \in AvailOn(people[k], "Friday")
          /\ \E i \in 1..Len(person_assign[people[k].name]) :
                DayName(person_assign[people[k].name][i][1]) = "Friday"

\* list a is a prefix of list b
IsPrefix(a, b) == Len(a) <= Len(b) /\ SubSeq(b, 1, Len(a)) = a

\* C8: commits are additive only.  Over every step, each slot's name list
\* and each person's assignment list keep what they held as a prefix, no
\* shifts_assigned decreases and no worked-day set loses a date.
C8_CommitsAdditive ==
    [][ /\ \A dt \in DateSet, slot \in SlotSet :
              IsPrefix(cal_assign[dt][slot], cal_assign'[dt][slot])
        /\ \A n \in DOMAIN person_state :
              /\ n \in DOMAIN person_state'
              /\ person_state'[n].shifts >= person_state[n].shifts
              /\ person_state[n].days_worked \subseteq
                     person_state'[n].days_worked
              /\ IsPrefix(person_assign[n], person_assign'[n]) ]_vars

\* C8 witness: a slot holds a senior-only name followed by a name that is
\* no senior's, so a General Fill phase has added to a list that a senior
\* phase had started.
C8_Witness ==
    /\ pc = "done"
    /\ \E dt \in DateSet, slot \in SlotSet :
          /\ Len(cal_assign[dt][slot]) >= 2
          /\ IsSeniorName(cal_assign[dt][slot][1])
          /\ ~IsSeniorName(cal_assign[dt][slot][2])

\* some senior roster entry lists slot for the weekday of dt
SeniorAvailable(dt, slot) ==
    \E k \in 1..Len(people) :
        people[k].senior /\ slot \in AvailOn(people[k], DayName(dt))

\* the state right after the commit of Senior Spread
AfterSeniorSpread == phase = 2 /\ pc = "build"

\* C9 as stated: after Senior Spread every slot for which a senior is
\* available holds exactly one senior, and no slot holds more than one
\* person.  Read on the rosters whose names are pairwise distinct.
C9_EverySeniorSlotFilled ==
    (AfterSeniorSpread /\ DistinctNames) =>
        \A dt \in DateSet, slot \in SlotSet :
            /\ SeniorAvailable(dt, slot) =>
                   seniors_in_slot(cal_assign, dt, slot) = 1
            /\ Len(cal_assign[dt][slot]) <= 1

\* C9 as amended: after Senior Spread a slot that is not empty holds the
\* name of one senior and no other name, and a slot is empty only if every
\* senior available for it has reached the quota of 2 or already works that
\* date.
C9_SpreadIsMaximal ==
    AfterSeniorSpread =>
        \A dt \in DateSet, slot \in SlotSet :
            LET L == cal_assign[dt][slot]
            IN /\ \A i, j \in 1..Len(L) : L[i] = L[j]
               /\ \A i \in 1..Len(L) : IsSeniorName(L[i])
               /\ L = <<>> =>
                     \A k \in 1..Len(people) :
                        (people[k].senior /\
                         slot \in AvailOn(people[k], DayName(dt))) =>
                            \/ person_state[people[k].name].shifts >= 2
                            \/ dt \in person_state[people[k].name].days_worked

\* C9 witness: Senior Spread has filled a slot and has left empty another
\* slot that a senior lists.
C9_Witness ==
    /\ AfterSeniorSpread
    /\ \E dt \in DateSet, slot \in SlotSet : cal_assign[dt][slot] # <<>>
    /\ \E dt \in DateSet, slot \in SlotSet :
          cal_assign[dt][slot] = <<>> /\ SeniorAvailable(dt, slot)

\* C10 as stated: two dates of the month on the same weekday have identical
\* name lists for every slot label.  Read on the rosters whose names are
\* pairwise distinct.
C10_WeeklyPatternReplicated ==
    (pc = "done" /\ DistinctNames) =>
        \A d1 \in DateSet, d2 \in DateSet :
            Weekday(d1) = Weekday(d2) =>
                \A slot \in SlotSet : cal_assign[d1][slot] = cal_assign[d2][slot]

\* C10 as amended: the calendar is solved date by date.  Two dates on the
\* same weekday offer a slot to the same people (every name on one date's
\* list is the name of a roster entry that lists the slot for the other
\* date's weekday as well), and their lists are filled separately.
C10_SameWeekdaySameCandidates ==
    pc = "done" =>
        \A d1 \in DateSet, d2 \in DateSet :
            Weekday(d1) = Weekday(d2) =>
                \A slot \in SlotSet :
                    \A i \in 1..Len(cal_assign[d1][slot]) :
                        Candidates(cal_assign[d1][slot][i], d2, slot) # {}

\* C10 witness: the two Thursdays of the month end with different lists for
\* a slot, neither of them empty.
C10_Witness ==
    /\ pc = "done"
    /\ \E slot \in SlotSet :
          /\ cal_assign[1][slot] # <<>>
          /\ cal_assign[8][slot] # <<>>
          /\ cal_assign[1][slot] # cal_assign[8][slot]

-----------------------------------------------------------------------------
(* Properties of the FlowSolver *)

\* capacity of u->v in graph g, 0 when there is no such entry
Cap(g, u, v) == DictGet(Sub(g, u), v, 0)

\* flow on u->v in fl, 0 when there is no such entry
FlowOn(fl, u, v) == DictGet(Sub(fl, u), v, 0)

\* total capacity in g of the set E of node pairs
RECURSIVE CapSum(_, _)
CapSum(g, E) ==
    IF E = {} THEN 0
    ELSE LET e == CHOOSE y \in E : TRUE
         IN Cap(g, e[1], e[2]) + CapSum(g, E \ {e})

\* capacity of the cut (A, FlowNodes \ A)
CutCapacity(g, A) == CapSum(g, A \X (FlowNodes \ A))

\* the cuts that separate s from t
Cuts(s, t) == {A \in SUBSET (FlowNodes \ {t}) : s \in A}

MinCut(g, s, t) ==
    LET caps == {CutCapacity(g, A) : A \in Cuts(s, t)}
    IN CHOOSE m \in caps : \A k \in caps : m <= k

\* C5: the value max_flow(source, sink) returns equals the capacity of a
\* minimum source-sink cut of the graph built by add_edge.
C5_MaxFlowIsMinCut ==
    pc = "returned" => max_f = MinCut(graph, src, snk)

\* C5 witness: max_flow("s", "t") has returned 2 on a graph where the first
\* shortest path s-p-x-t had to be rerouted: x->t has capacity 1, so the
\* unit through x now comes from q and the unit of p goes through y.
C5_Witness ==
    /\ pc = "returned"
    /\ src = "s" /\ snk = "t"
    /\ max_f = 2
    /\ Cap(graph, "x", "t") = 1
    /\ Cap(graph, "p", "x") = 1 /\ FlowOn(flow, "p", "x") = 0
    /\ FlowOn(flow, "q", "x") = 1
    /\ FlowOn(flow, "p", "y") = 1

\* C6: max_flow terminates; every augmentation raises the total flow by at
\* least 1 and the loop ends with bfs finding no augmenting path.
C6_MaxFlowTerminates ==
    /\ (pc = "solve") ~> (pc = "returned")
    /\ [][(pc = "solve" /\ pc' = "solve") => max_f' >= max_f + 1]_vars
    /\ [](pc = "returned" =>
             ~bfs([graph |-> graph, flow |-> flow], src, snk).found)

\* C6 witness: max_flow has returned after at least two augmentations.
C6_Witness == pc = "returned" /\ max_f >= 2

\* the sum of flow[n][v] over the nodes v of V
RECURSIVE FlowSum(_, _, _)
FlowSum(fl, n, V) ==
    IF V = {} THEN 0
    ELSE LET v == CHOOSE y \in V : TRUE
         IN FlowOn(fl, n, v) + FlowSum(fl, n, V \ {v})

\* C22: from the call of max_flow to its return, so after every
\* augmentation, the flow is feasible: no entry exceeds the capacity of its
\* edge, flow[u][v] = -flow[v][u], every node but the source and the sink
\* has net flow zero, and the total max_flow has counted (the one it
\* returns) is the net flow out of the source.
C22_FlowFeasible ==
    pc \in {"solve", "returned"} =>
        /\ \A u, v \in FlowNodes :
              /\ FlowOn(flow, u, v) <= Cap(graph, u, v)
              /\ FlowOn(flow, u, v) = -FlowOn(flow, v, u)
        /\ \A n \in FlowNodes \ {src, snk} : FlowSum(flow, n, FlowNodes) = 0
        /\ max_f = FlowSum(flow, src, FlowNodes)

\* C22 witness: max_flow from x, a node with edges in both directions to
\* p, has pushed one unit through p and is still running
C22_Witness ==
    /\ pc = "solve"
    /\ src = "x" /\ snk = "t"
    /\ max_f = 1
    /\ FlowOn(flow, "x", "p") = 1 /\ FlowOn(flow, "p", "x") = -1
    /\ Cap(graph, "p", "x") >= 1

\* dict-of-dicts b keeps every entry of a in its place and with its value
SameEntries(a, b) ==
    \A u \in DOMAIN a :
        /\ u \in DOMAIN b
        /\ Len(b[u]) >= Len(a[u])
        /\ SubSeq(b[u], 1, Len(a[u])) = a[u]

\* dict-of-dicts b keeps every entry of a in its place, with a value that
\* is not lower
NotLowered(a, b) ==
    \A u \in DOMAIN a :
        /\ u \in DOMAIN b
        /\ Len(b[u]) >= Len(a[u])
        /\ \A i \in 1..Len(a[u]) :
              b[u][i][1] = a[u][i][1] /\ b[u][i][2] >= a[u][i][2]

\* the pairs add_edge is tried on: the driver's edges, their reverses and a
\* self-loop
CallPairs ==
    {DriverEdges[i] : i \in 1..Len(DriverEdges)} \cup
    {<<DriverEdges[i][2], DriverEdges[i][1]>> : i \in 1..Len(DriverEdges)} \cup
    {<<"p", "p">>}

\* C7: add_edge is additive, ensures the reverse entry, never lowers a
\* capacity and never changes an existing flow value.  Checked for every
\* call add_edge(u, v, a) that could be made on a graph under construction
\* and on a solved graph that carries flow.
C7_AddEdgeAdditive ==
    (pc = "driver" \/ (pc = "returned" /\ max_f > 0)) =>
    LET S == [graph |-> graph, flow |-> flow]
    IN \A e \in CallPairs :
          \A a \in 0..MaxCap :
              LET u  == e[1]
                  v  == e[2]
                  Sa == add_edge(S, u, v, a)
              IN /\ \A b \in 0..MaxCap :
                       add_edge(Sa, u, v, b) = add_edge(S, u, v, a + b)
                 /\ DictHas(Sub(Sa.graph, v), u)
                 /\ Cap(Sa.graph, u, v) = Cap(S.graph, u, v) + a
                 /\ NotLowered(S.graph, Sa.graph)
                 /\ SameEntries(S.flow, Sa.flow)
                 /\ FlowOn(Sa.flow, u, v) = FlowOn(S.flow, u, v)
                 /\ FlowOn(Sa.flow, v, u) = FlowOn(S.flow, v, u)

\* C7 witness: the driver has added to p->x after x->p got capacity, and a
\* flow is in place while further add_edge calls are considered.
C7_Witness ==
    /\ pc = "returned"
    /\ max_f > 0
    /\ Cap(graph, "x", "p") = MaxCap
    /\ Cap(graph, "p", "x") > 0


-----------------------------------------------------------------------------
(* Properties of the calendar and of the warnings *)

\* the Monday-to-Friday days of the modelled month
WorkDays == {dt \in 1..MonthLen : Weekday(dt) \notin {5, 6}}

\* C11: the calendar has an entry for exactly the Monday-to-Friday dates of
\* the month, each entry has one list per configured slot label, and no
\* other date ever receives an assignment.
C11_CalendarKeysAreWorkDays ==
    /\ DOMAIN cal_assign = WorkDays
    /\ \A dt \in DOMAIN cal_assign :
          /\ DOMAIN cal_assign[dt] = SlotSet
          /\ \A slot \in SlotSet : cal_assign[dt][slot] \in Seq(Names)
    /\ \A n \in DOMAIN person_assign :
          \A i \in 1..Len(person_assign[n]) :
              person_assign[n][i][1] \in WorkDays
    /\ \A n \in DOMAIN person_state :
          person_state[n].days_worked \subseteq WorkDays

\* C11 witness: the run is over, the Friday before the weekend holds an
\* assignment, and the month has a Saturday and a Sunday that are no keys.
C11_Witness ==
    /\ pc = "done"
    /\ \E slot \in SlotSet : cal_assign[2][slot] # <<>>
    /\ {3, 4} \subseteq 1..MonthLen
    /\ {3, 4} \cap DOMAIN cal_assign = {}


\* the positions of the warning list that hold the no-senior warning of
\* slot on date dt
NoSeniorWarnings(dt, slot) ==
    {i \in 1..Len(warnings) :
        /\ warnings[i].kind = "nosenior"
        /\ warnings[i].dt = dt
        /\ warnings[i].slot = slot}

\* the dates of the month that fall on the weekday named w
DatesOn(w) == {dt \in DateSet : DayName(dt) = w}

\* C12 as stated: a (weekday, slot) for which no senior is available and
\* whose final list is not empty has its no-senior warning exactly once in
\* the final list, and a slot that holds a senior or is empty has none.
\* Read on the rosters whose names are pairwise distinct.
C12_OneWarningPerWeekdaySlot ==
    (pc = "done" /\ DistinctNames) =>
        \A w \in {day_name[i] : i \in 1..Len(day_name)}, slot \in SlotSet :
            /\ ( /\ \A dt \in DatesOn(w) : ~SeniorAvailable(dt, slot)
                 /\ \E dt \in DatesOn(w) : cal_assign[dt][slot] # <<>> )
               => Cardinality(UNION {NoSeniorWarnings(dt, slot) :
                                        dt \in DatesOn(w)}) = 1
            /\ \A dt \in DatesOn(w) :
                  ( \/ cal_assign[dt][slot] = <<>>
                    \/ seniors_in_slot(cal_assign, dt, slot) > 0 )
                  => NoSeniorWarnings(dt, slot) = {}

\* C12 as amended: the warnings are per date.  In the final list, every
\* (date, slot) whose list is not empty and holds no name of a senior
\* roster entry has its no-senior warning exactly once, with the length of
\* the list; a slot that holds a senior's name or is empty has none; and
\* before the run ends no warning exists.
C12_OneWarningPerDateSlot ==
    /\ pc = "done" =>
          \A dt \in DateSet, slot \in SlotSet :
              LET L == cal_assign[dt][slot]
              IN IF L # <<>> /\ seniors_in_slot(cal_assign, dt, slot) = 0
                 THEN /\ Cardinality(NoSeniorWarnings(dt, slot)) = 1
                      /\ \A i \in NoSeniorWarnings(dt, slot) :
                            warnings[i].count = Len(L)
                 ELSE NoSeniorWarnings(dt, slot) = {}
    /\ pc # "done" => warnings = <<>>

\* C12 witness: both Thursdays of the month end with people but no senior
\* in the same slot, so that slot of the weekday has two warnings, and
\* another slot holds a senior.
C12_Witness ==
    /\ pc = "done"
    /\ \E slot \in SlotSet :
          /\ NoSeniorWarnings(1, slot) # {}
          /\ NoSeniorWarnings(8, slot) # {}
    /\ \E dt \in DateSet, slot \in SlotSet :
          seniors_in_slot(cal_assign, dt, slot) > 0


\* the (weekday, label) pairs of an availability map
AvailPairs(av) == UNION {{<<d, l>> : l \in av[d]} : d \in DOMAIN av}

\* the under-quota warnings, in the order of the warning list
UnderQuotaWarnings == SelectSeq(warnings, LAMBDA x : x.kind = "shifts")

\* the roster entries whose name ends below 2 shifts, in roster order
UnderQuotaPeople ==
    SelectSeq(people, LAMBDA p : person_state[p.name].shifts < 2)

\* C13 as stated: a person whose availability is a single (weekday, slot)
\* pair ends with shifts_assigned = 1 and exactly one under-quota warning
\* names them.  Read on the rosters whose names are pairwise distinct.
C13_SinglePairEndsWithOne ==
    (pc = "done" /\ DistinctNames) =>
        \A k \in 1..Len(people) :
            Cardinality(AvailPairs(people[k].availability)) = 1 =>
                /\ person_state[people[k].name].shifts = 1
                /\ Cardinality({i \in 1..Len(UnderQuotaWarnings) :
                        UnderQuotaWarnings[i].name = people[k].name}) = 1

\* C13 as amended: the under-quota warnings are, in roster order, one for
\* each roster entry whose final shifts_assigned is below 2, with that
\* count, and none for an entry at quota; a name whose availability is a
\* single (weekday, slot) pair is assigned only that slot on dates of that
\* weekday, once per date on which it was given the slot, so it ends with 1
\* shift or with more.
C13_UnderQuotaWarnedOnce ==
    pc = "done" =>
        /\ UnderQuotaWarnings =
              [i \in 1..Len(UnderQuotaPeople) |->
                  [kind  |-> "shifts",
                   name  |-> UnderQuotaPeople[i].name,
                   count |-> person_state[UnderQuotaPeople[i].name].shifts]]
        /\ \A n \in DOMAIN person_assign :
              LET pairs == UNION {AvailPairs(people[k].availability) :
                                     k \in {j \in 1..Len(people) :
                                                people[j].name = n}}
              IN Cardinality(pairs) = 1 =>
                    /\ \A i \in 1..Len(person_assign[n]) :
                          <<DayName(person_assign[n][i][1]),
                            person_assign[n][i][2]>> \in pairs
                    /\ person_state[n].shifts = Len(person_assign[n])

\* C13 witness: somebody who lists only Thursday 8AM-10AM ends with 2
\* shifts and no warning, and somebody who lists only Friday 8AM-10AM ends
\* with 1 shift and a warning.
C13_Witness ==
    /\ pc = "done"
    /\ \E k \in 1..Len(people) :
          /\ AvailPairs(people[k].availability) = {<<"Thursday", "8AM-10AM">>}
          /\ person_state[people[k].name].shifts = 2
          /\ \A i \in 1..Len(UnderQuotaWarnings) :
                UnderQuotaWarnings[i].name # people[k].name
    /\ \E k \in 1..Len(people) :
          /\ AvailPairs(people[k].availability) = {<<"Friday", "8AM-10AM">>}
          /\ person_state[people[k].name].shifts = 1
          /\ \E i \in 1..Len(UnderQuotaWarnings) :
                /\ UnderQuotaWarnings[i].name = people[k].name
                /\ UnderQuotaWarnings[i].count = 1

-----------------------------------------------------------------------------
(* Properties of a whole call of assign_slots *)

\* the steps a call has left at most: one per BuildPhase, CommitPhase and
\* Warn, and in a phase one per unit of flow plus the last bfs
PhaseSteps == 2 * MaxPeople + 3

StepsLeft ==
    IF pc = "done" THEN 0
    ELSE IF pc = "warn" THEN 1
    ELSE 2 + (NumPhases - phase) * PhaseSteps
           + (IF pc = "build" THEN PhaseSteps - 1
              ELSE IF pc = "solve" THEN 2 * MaxPeople + 1 - max_f
              ELSE 0)

\* the result of a finished call: every date of the month with every slot,
\* a list per roster name, and the warnings
CompleteResult ==
    /\ DOMAIN cal_assign = DateSet
    /\ \A dt \in DateSet :
          /\ DOMAIN cal_assign[dt] = SlotSet
          /\ \A slot \in SlotSet :
                \A i \in 1..Len(cal_assign[dt][slot]) :
                   cal_assign[dt][slot][i] \in RosterNames(people)
    /\ DOMAIN person_assign = RosterNames(people)
    /\ \A n \in RosterNames(people) :
          \A i \in 1..Len(person_assign[n]) :
             person_assign[n][i] \in DateSet \X SlotSet
    /\ \A i \in 1..Len(warnings) : warnings[i].kind \in {"shifts", "nosenior"}

NoAbort ==
    /\ pc = "done" \/ ENABLED Next
    /\ pc \in {"build", "solve", "returned"} => phase \in 1..NumPhases
    /\ pc \in {"warn", "done"} => phase = NumPhases + 1
    /\ StepsLeft \in Nat
    /\ pc = "done" => CompleteResult

\* C14: for every roster (the empty one, one without seniors, entries with
\* no availability) a call of assign_slots never stops before its return:
\* in every state short of the return a step can be taken, every step
\* brings the return nearer, all seven phases are run in order, and the
\* call returns a calendar with every date and slot, a list per name and
\* the warnings.
C14_RunsToCompletion == [][StepsLeft' < StepsLeft]_vars /\ []NoAbort

\* a finished call on a roster without seniors, with an entry that has no
\* availability at all, and with slots left empty
C14_Witness ==
    /\ pc = "done"
    /\ Len(people) = MaxPeople
    /\ \A k \in 1..Len(people) : ~people[k].senior
    /\ \E k \in 1..Len(people) : AvailPairs(people[k].availability) = {}
    /\ \E dt \in DateSet, slot \in SlotSet : cal_assign[dt][slot] = <<>>
    /\ \E dt \in DateSet, slot \in SlotSet : cal_assign[dt][slot] # <<>>

ShiftsWarning(k) ==
    [kind |-> "shifts", name |-> people[k].name,
     count |-> person_state[people[k].name].shifts]

NoSeniorWarning(dt, slot) ==
    [kind |-> "nosenior", dt |-> dt, slot |-> slot,
     count |-> Len(cal_assign[dt][slot])]

InWarnings(w) == \E i \in 1..Len(warnings) : warnings[i] = w

\* the shortfalls the warning loops test for
UnderQuota(k) == person_state[people[k].name].shifts < 2
NoSenior(dt, slot) ==
    cal_assign[dt][slot] # <<>> /\ seniors_in_slot(cal_assign, dt, slot) = 0

\* C15 as stated: in the result every slot without a senior, every slot
\* short of staff (a slot without any assignee at least) and every roster
\* entry under quota has a warning.
C15_EveryShortfallWarned ==
    (pc = "done" /\ DistinctNames) =>
        /\ \A k \in 1..Len(people) : UnderQuota(k) => InWarnings(ShiftsWarning(k))
        /\ \A dt \in DateSet, slot \in SlotSet :
              seniors_in_slot(cal_assign, dt, slot) = 0
                 => NoSeniorWarnings(dt, slot) # {}

\* C15, amended: the returned warnings are those of the roster entries
\* whose name has fewer than 2 recorded shifts and those of the slots
\* whose list is not empty and holds no senior's name, and no others: a
\* slot left empty, or short of staff with a senior in it, has no warning.
C15_WarningsAreTheTestedShortfalls ==
    pc = "done" =>
        /\ \A k \in 1..Len(people) : UnderQuota(k) => InWarnings(ShiftsWarning(k))
        /\ \A dt \in DateSet, slot \in SlotSet :
              NoSenior(dt, slot) => InWarnings(NoSeniorWarning(dt, slot))
        /\ \A i \in 1..Len(warnings) :
              \/ /\ warnings[i].kind = "shifts"
                 /\ \E k \in 1..Len(people) :
                       UnderQuota(k) /\ warnings[i] = ShiftsWarning(k)
              \/ /\ warnings[i].kind = "nosenior"
                 /\ NoSenior(warnings[i].dt, warnings[i].slot)
                 /\ warnings[i] = NoSeniorWarning(warnings[i].dt, warnings[i].slot)
        /\ Len(warnings) =
              Cardinality({k \in 1..Len(people) : UnderQuota(k)})
              + Cardinality({ds \in DateSet \X SlotSet : NoSenior(ds[1], ds[2])})

\* a result with a slot left empty and unwarned, a slot holding a single
\* senior and unwarned, a warned slot without a senior, and a warned entry
\* under quota
C15_Witness ==
    /\ pc = "done"
    /\ DistinctNames
    /\ \E dt \in DateSet, slot \in SlotSet :
          cal_assign[dt][slot] = <<>> /\ NoSeniorWarnings(dt, slot) = {}
    /\ \E dt \in DateSet, slot \in SlotSet :
          /\ Len(cal_assign[dt][slot]) = 1
          /\ seniors_in_slot(cal_assign, dt, slot) = 1
          /\ NoSeniorWarnings(dt, slot) = {}
    /\ \E dt \in DateSet, slot \in SlotSet :
          NoSenior(dt, slot) /\ InWarnings(NoSeniorWarning(dt, slot))
    /\ \E k \in 1..Len(people) : UnderQuota(k) /\ InWarnings(ShiftsWarning(k))

-----------------------------------------------------------------------------
(* Properties of the identity of roster entries *)

\* the roster entries that get a Source -> Person edge in phase ph
Fed(ph) ==
    {k \in 1..Len(people) :
        /\ target_group_filter(ph, people[k])
        /\ person_state[people[k].name].shifts < 2}

\* C16: every roster entry (one per ucid) is a person of its own: in the
\* graph of a phase each entry that is fed has its own person node, whose
\* edge from the source has the capacity of that entry's remaining quota
\* (2 at most), and there is one PersonState per entry.
C16_OwnNodePerEntry ==
    pc = "solve" =>
        /\ Cardinality(DOMAIN person_state) = Len(people)
        /\ Len(Sub(graph, SOURCE)) = Cardinality(Fed(phase))
        /\ \A k \in Fed(phase) :
              DictGet(Sub(graph, SOURCE), PersonNode(people[k].name), 0)
                 = 2 - person_state[people[k].name].shifts

-----------------------------------------------------------------------------
(* Frame of the steps of assign_slots *)

\* C18: building the graph of a phase and solving it change none of
\* cal_assign, person_assign and person_state; these change in the commit
\* step of a phase only; the roster is never changed; and the warning
\* step changes nothing but the list of warnings it builds.
C18_Frame ==
    [][/\ people' = people
       /\ pc \in {"build", "solve"} =>
             UNCHANGED <<cal_assign, person_assign, person_state>>
       /\ <<cal_assign, person_assign, person_state>>'
             # <<cal_assign, person_assign, person_state>>
             => pc = "returned" /\ pc' \in {"build", "warn"}
       /\ pc = "warn" =>
             UNCHANGED <<cal_assign, person_assign, person_state, phase>>]_vars

\* a later phase is being solved, with flow found, on top of assignments
\* that earlier phases committed
C18_Witness ==
    /\ pc = "solve"
    /\ phase >= 3
    /\ max_f > 0
    /\ \E dt \in DateSet, slot \in SlotSet : Len(cal_assign[dt][slot]) >= 2
    /\ \E n \in DOMAIN person_state : person_state[n].shifts = 1

-----------------------------------------------------------------------------
(* Slot capacities *)

\* what the commit step of the phase being run may do to the list of one
\* slot: add no more names than the phase's capacity for the slot, lift
\* the size in General Fill sub-phase k (phase k + 2) to k at most, and
\* never beyond 5
WithinSlotCap(dt, slot) ==
    LET before == Len(cal_assign[dt][slot])
        after  == Len(cal_assign'[dt][slot])
        cap    == slot_cap_fn(phase, before)
    IN /\ after - before <= (IF cap > 0 THEN cap ELSE 0)
       /\ (phase >= 3 /\ after > before) => after <= target_cap(phase)
       /\ after <= 5

\* C19: in every phase the number of people committed to a slot is at most
\* the phase's capacity for the slot at its size before the phase, however
\* many people feed the slot; General Fill sub-phase k never lifts a slot
\* above k people, and no slot ever holds more than 5.
C19_SlotCapRespected ==
    [][pc = "returned" =>
          \A dt \in DateSet, slot \in SlotSet : WithinSlotCap(dt, slot)]_vars

\* the same for rosters whose names are pairwise distinct
C19_SlotCapRespectedDistinct ==
    [][(pc = "returned" /\ DistinctNames) =>
          \A dt \in DateSet, slot \in SlotSet : WithinSlotCap(dt, slot)]_vars

-----------------------------------------------------------------------------
(* Properties of main *)

Fields ==
    {{"first", "name"}, {"last", "name"}, {"ucid"}, {"senior"}}
    \cup {{days[i]} : i \in 1..Len(days)}

\* no column of the sheet is named for the field
Lacks(d, field) ==
    \A i \in 1..Len(d.columns) :
       ~(field \subseteq {lower[d.columns[i][j]] : j \in 1..Len(d.columns[i])})

\* C20: if a required column (first name, last name, UCID, senior status,
\* Monday..Friday) is missing, loading fails with the error and the run
\* ends there: no roster, no call of assign_slots, no phase, no result and
\* no output.
C20_MissingColumnRejected ==
    (pc # "load" /\ \E field \in Fields : Lacks(df, field)) =>
        /\ pc = "ValueError"
        /\ people = <<>>
        /\ phase = 0
        /\ cal_assign = <<>> /\ person_assign = <<>> /\ person_state = <<>>
        /\ warnings = <<>> /\ graph = <<>> /\ flow = <<>>
        /\ results = <<>>

\* the sheet has a row and every column but Friday, and loading has failed
C20_Witness ==
    /\ pc = "ValueError"
    /\ Len(df.rows) = 1
    /\ df.columns = SubSeq(FullHeader, 1, 9)
    /\ \A field \in Fields : Lacks(df, field) <=> field = {"friday"}

-----------------------------------------------------------------------------
(* Properties of sync_sheet *)

InWindow(ts) == to_date(ts) >= start_date /\ to_date(ts) <= end_date

\* the submissions of UCID u inside the window, by their index in the sheet
InWindowOf(u) ==
    {i \in 1..Len(df.rows) : df.rows[i].ucid = u /\ InWindow(df.rows[i].ts)}

\* timestamp a is not later than timestamp b
NotLater(a, b) == a[1] < b[1] \/ (a[1] = b[1] /\ a[2] <= b[2])

KeptOf(u) == {k \in 1..Len(df_clean) : df_clean[k].ucid = u}

\* C21: the written file holds, for every UCID with a submission inside
\* the window, exactly one row, which is the most recent of that UCID's
\* submissions inside the window, by day and time of day; and it holds no
\* submission from outside the window.
C21_KeepsMostRecent ==
    pc = "written" =>
        /\ \A k \in 1..Len(df_clean) : InWindow(df.rows[df_clean[k].idx].ts)
        /\ \A u \in {df.rows[i].ucid : i \in 1..Len(df.rows)} :
              IF InWindowOf(u) = {} THEN KeptOf(u) = {}
              ELSE /\ Cardinality(KeptOf(u)) = 1
                   /\ \A k \in KeptOf(u) :
                         /\ df_clean[k].idx \in InWindowOf(u)
                         /\ \A i \in InWindowOf(u) :
                               NotLater(df.rows[i].ts,
                                        df.rows[df_clean[k].idx].ts)

\* what holds of the written file: one row per UCID of the window, from
\* inside the window, of the latest day on which that UCID submitted
C21_KeepsLatestDay ==
    pc = "written" =>
        /\ \A k \in 1..Len(df_clean) : InWindow(df.rows[df_clean[k].idx].ts)
        /\ \A u \in {df.rows[i].ucid : i \in 1..Len(df.rows)} :
              IF InWindowOf(u) = {} THEN KeptOf(u) = {}
              ELSE /\ Cardinality(KeptOf(u)) = 1
                   /\ \A k \in KeptOf(u) :
                         /\ df_clean[k].idx \in InWindowOf(u)
                         /\ \A i \in InWindowOf(u) :
                               to_date(df.rows[i].ts) <= df_clean[k].ts

-----------------------------------------------------------------------------
(* Flow extraction *)

\* the number of names in the slot lists of the pairs in S
RECURSIVE SlotLens(_, _)
SlotLens(cal, S) ==
    IF S = {} THEN 0
    ELSE LET x == CHOOSE y \in S : TRUE
         IN Len(cal[x[1]][x[2]]) + SlotLens(cal, S \ {x})

\* what the commit step of a phase adds, against the flow it reads: as many
\* assignments as max_flow returned, to each person as many as the flow on
\* the Source -> Person edge, to each slot as many as the flow on the
\* Slot -> Sink edge
CommitsMatchFlow ==
    /\ SlotLens(cal_assign', DateSet \X SlotSet)
          - SlotLens(cal_assign, DateSet \X SlotSet) = max_f
    /\ \A n \in DOMAIN person_state :
          /\ person_state'[n].shifts - person_state[n].shifts
                = FlowOn(flow, SOURCE, PersonNode(n))
          /\ Len(person_assign'[n]) - Len(person_assign[n])
                = FlowOn(flow, SOURCE, PersonNode(n))
    /\ \A dt \in DateSet, slot \in SlotSet :
          Len(cal_assign'[dt][slot]) - Len(cal_assign[dt][slot])
             = FlowOn(flow, SlotNode(dt, slot), SINK)

\* C23: in every phase, flow extraction commits exactly one (person, date,
\* slot) assignment per unit of flow: the number of assignments committed
\* equals the value max_flow returned, each person receives as many commits
\* as the flow on their Source -> Person edge, and each slot as many as the
\* flow on its Slot -> Sink edge.
C23_OneCommitPerFlowUnit ==
    [][pc = "returned" => CommitsMatchFlow]_vars

\* the same for rosters whose names are pairwise distinct
C23_OneCommitPerFlowUnitDistinct ==
    [][(pc = "returned" /\ DistinctNames) => CommitsMatchFlow]_vars

-----------------------------------------------------------------------------
(* One slot per person and date *)

\* no person has two assignments on one date, and no slot list holds a name
\* twice
OnePerDate ==
    /\ \A n \in DOMAIN person_assign :
          \A dt \in DateSet : Cardinality(OnDate(person_assign[n], dt)) <= 1
    /\ \A dt \in DateSet, slot \in SlotSet :
          \A i, j \in 1..Len(cal_assign[dt][slot]) :
              cal_assign[dt][slot][i] = cal_assign[dt][slot][j] => i = j

\* C24: no person is ever assigned to two slots on the same calendar date,
\* after any number of phases, and consequently no name appears twice in
\* one slot's list.
C24_OneSlotPerDate == OnePerDate

\* the same for rosters whose names are pairwise distinct
C24_OneSlotPerDateDistinct == DistinctNames => OnePerDate

-----------------------------------------------------------------------------
(* The senior phases *)

\* Senior Spread and Senior Depth are running or have just ended: no General
\* Fill sub-phase has committed anything yet
BeforeGeneralFill == phase <= 2 \/ (phase = 3 /\ pc \in {"build", "solve", "returned"})

\* every name in every slot list is a senior, no slot holds more than 2
\* people, and the size of a slot is its senior count
OnlySeniorsAtMostTwo ==
    \A dt \in DateSet, slot \in SlotSet :
        /\ \A i \in 1..Len(cal_assign[dt][slot]) :
              IsSeniorName(cal_assign[dt][slot][i])
        /\ Len(cal_assign[dt][slot]) <= 2
        /\ seniors_in_slot(cal_assign, dt, slot) = Len(cal_assign[dt][slot])

\* C25: Senior Spread and Senior Depth commit only senior-flagged people:
\* after Senior Depth every name in every slot list is a senior and every
\* slot holds at most 2 people, so the slot size cap_phase2 is given equals
\* the slot's senior count.
C25_SeniorPhasesCommitSeniors == BeforeGeneralFill => OnlySeniorsAtMostTwo

\* the same for rosters whose names are pairwise distinct
C25_SeniorPhasesCommitSeniorsDistinct ==
    (DistinctNames /\ BeforeGeneralFill) => OnlySeniorsAtMostTwo

-----------------------------------------------------------------------------
(* Agreement of the three stores *)

\* the (date, slot) pairs whose slot list holds name n
SlotsHolding(n) ==
    {x \in DateSet \X SlotSet :
        \E i \in 1..Len(cal_assign[x[1]][x[2]]) : cal_assign[x[1]][x[2]][i] = n}

\* the (date, slot) pairs of the assignment list of n
PairsOf(n) == {person_assign[n][i] : i \in 1..Len(person_assign[n])}

\* cal_assign, person_assign and person_state tell the same of every person
StoresAgree ==
    \A n \in DOMAIN person_state :
        /\ person_state[n].shifts = Len(person_assign[n])
        /\ person_state[n].shifts = Cardinality(SlotsHolding(n))
        /\ person_state[n].days_worked = {x[1] : x \in PairsOf(n)}
        /\ PairsOf(n) = SlotsHolding(n)

\* C26: at every commit point the three stores agree: for every person,
\* shifts_assigned equals the length of their assignment list and the
\* number of slot lists containing their name, their days_worked set equals
\* the set of dates in their assignment list, and (date, slot) is in their
\* list exactly when their name is in that date's slot list.
C26_StoresAgree == StoresAgree

\* the same for rosters whose names are pairwise distinct
C26_StoresAgreeDistinct == DistinctNames => StoresAgree

-----------------------------------------------------------------------------
(* Seniors and General Fill *)

\* Senior Depth has committed: a General Fill sub-phase is being run, or
\* the phases are over
AfterSeniorDepth == phase >= 3

\* no senior under quota has, on a date they have not worked, an available
\* slot with fewer than 2 seniors
SeniorsExhausted ==
    \A k \in 1..Len(people) :
        (people[k].senior /\ UnderQuota(k)) =>
            \A dt \in DateSet \ person_state[people[k].name].days_worked :
                \A slot \in SlotSet \cap AvailOn(people[k], DayName(dt)) :
                    seniors_in_slot(cal_assign, dt, slot) >= 2

\* in every slot list all seniors precede all non-seniors
SeniorsFirst ==
    \A dt \in DateSet, slot \in SlotSet :
        \A i, j \in 1..Len(cal_assign[dt][slot]) :
            (i < j /\ IsSeniorName(cal_assign[dt][slot][j]))
                => IsSeniorName(cal_assign[dt][slot][i])

\* the commit step of a General Fill sub-phase adds no senior to any slot
\* and no assignment to any senior
GeneralFillAddsNoSenior ==
    (pc = "returned" /\ phase >= 3) =>
        /\ \A dt \in DateSet, slot \in SlotSet :
              \A i \in (Len(cal_assign[dt][slot]) + 1)
                          ..Len(cal_assign'[dt][slot]) :
                  ~IsSeniorName(cal_assign'[dt][slot][i])
        /\ \A k \in 1..Len(people) :
              people[k].senior =>
                  person_assign'[people[k].name] = person_assign[people[k].name]

\* C27: no General Fill sub-phase ever commits a senior: after Senior
\* Depth, every senior with remaining quota has, on every date they have
\* not worked, only available slots that already hold 2 seniors, so every
\* senior assignment is made in Senior Spread or Senior Depth and in every
\* slot list all seniors precede all non-seniors.
C27_NoSeniorInGeneralFill ==
    /\ [](AfterSeniorDepth => SeniorsExhausted)
    /\ []SeniorsFirst
    /\ [][GeneralFillAddsNoSenior]_vars

\* the same for rosters whose names are pairwise distinct
C27_NoSeniorInGeneralFillDistinct ==
    /\ []((DistinctNames /\ AfterSeniorDepth) => SeniorsExhausted)
    /\ [](DistinctNames => SeniorsFirst)
    /\ [][DistinctNames => GeneralFillAddsNoSenior]_vars

-----------------------------------------------------------------------------
(* Saturation of the final assignment *)

\* roster entry k could still be added to slot (dt, slot): the person is
\* under quota, has not worked dt, is available for the slot, the slot
\* holds fewer than 5 people and, for a senior, fewer than 2 seniors
CouldAdd(k, dt, slot) ==
    /\ UnderQuota(k)
    /\ dt \notin person_state[people[k].name].days_worked
    /\ slot \in AvailOn(people[k], DayName(dt))
    /\ Len(cal_assign[dt][slot]) < 5
    /\ people[k].senior => seniors_in_slot(cal_assign, dt, slot) < 2

\* the last General Fill sub-phase has committed
AfterLastFill == pc \in {"warn", "done"}

\* C28 witness: the run is over and the one Friday slot is full with 5
\* people, among them 2 seniors; a non-senior who is available for it is
\* left out without any shift and is warned about
C28_Witness ==
    /\ pc = "done"
    /\ DistinctNames
    /\ Len(cal_assign[2]["8AM-10AM"]) = 5
    /\ seniors_in_slot(cal_assign, 2, "8AM-10AM") = 2
    /\ \E k \in 1..Len(people) :
          /\ ~people[k].senior
          /\ "8AM-10AM" \in AvailOn(people[k], DayName(2))
          /\ person_state[people[k].name].shifts = 0
          /\ InWarnings(ShiftsWarning(k))

\* C28: the final assignment is saturated: after the last General Fill
\* sub-phase there is no person under quota with a date they have not
\* worked and a slot on that date they are available for that holds fewer
\* than 5 people (and, if the person is senior, fewer than 2 seniors); so
\* every under-quota warning names a person who could not be added
\* anywhere.
C28_FinalAssignmentSaturated ==
    AfterLastFill =>
        /\ \A k \in 1..Len(people) :
              \A dt \in DateSet, slot \in SlotSet : ~CouldAdd(k, dt, slot)
        /\ \A i \in 1..Len(warnings) :
              warnings[i].kind = "shifts" =>
                  \E k \in 1..Len(people) :
                      /\ warnings[i] = ShiftsWarning(k)
                      /\ UnderQuota(k)
                      /\ \A dt \in DateSet, slot \in SlotSet :
                            ~CouldAdd(k, dt, slot)

=============================================================================
